---------------------------- MODULE Spec2Model ----------------------------
(***************************************************************************)
(* Keyset-paginated read API of data_api_serving/resources/serving:        *)
(* api_model_customers.py (request normaliser, query compiler, cursor      *)
(* codec, page assembler) and the page walk of client.py.                  *)
(*                                                                         *)
(* Texts (Python str / bytes) are sequences of ASCII codes.  Python and    *)
(* JSON values are records [t, n, s, a, k]: t the type tag, n the number   *)
(* of an int / bool / timestamp, s the text of a str, a the elements of a  *)
(* list or the values of a dict, k the keys of a dict.                     *)
(***************************************************************************)
EXTENDS Integers, Sequences, FiniteSets, TLC

-----------------------------------------------------------------------------
(* Characters *)

\* The printable ASCII characters, code 32 (space) to 126 (~), in order; the
\* grave accent (code 96), which a TLA+ string cannot hold, is written "(96)".
ASCII ==
  << " ", "!", "\"", "#", "$", "%", "&", "'", "(", ")", "*", "+", ",", "-",
     ".", "/", "0", "1", "2", "3", "4", "5", "6", "7", "8", "9", ":", ";",
     "<", "=", ">", "?", "@", "A", "B", "C", "D", "E", "F", "G", "H", "I",
     "J", "K", "L", "M", "N", "O", "P", "Q", "R", "S", "T", "U", "V", "W",
     "X", "Y", "Z", "[", "\\", "]", "^", "_", "(96)", "a", "b", "c", "d", "e",
     "f", "g", "h", "i", "j", "k", "l", "m", "n", "o", "p", "q", "r", "s",
     "t", "u", "v", "w", "x", "y", "z", "{", "|", "}", "~" >>

\* The TLA+ string of a printable text (used where a text is pasted into SQL).
RECURSIVE TextString(_)
TextString(s) ==
  IF s = <<>> THEN ""
  ELSE (IF Head(s) \in 32..126 THEN ASCII[Head(s) - 31] ELSE "?") \o TextString(Tail(s))

\* The code of a character.  (The code of a character of JSON, base64 or SQL
\* syntax is written as a number below, with the character in a comment.)
Ord(c) == CHOOSE i \in 32..126 : TextString(<<i>>) = c

\* The text of a sequence of one-character strings.
Txt(cs) == [i \in 1..Len(cs) |-> Ord(cs[i])]


\* "0" .. "9"
IsDigit(c) == c \in 48..57

\* str.strip() / JSON whitespace: space, \t, \n, \r (and \v, \f for strip).
IsSpace(c) == c \in {32} \cup 9..13

\* str.lower() on ASCII text.
Lower(s) ==
  [i \in 1..Len(s) |-> IF s[i] \in 65..90 THEN s[i] + 32 ELSE s[i]]

\* The set of the elements of a sequence.
Range(xs) == {xs[i] : i \in 1..Len(xs)}

RECURSIVE Concat(_)
Concat(ss) == IF ss = <<>> THEN <<>> ELSE Head(ss) \o Concat(Tail(ss))

\* Whether text p occurs in text s at position i.
OccursAt(p, s, i) ==
  /\ i >= 1
  /\ i + Len(p) - 1 <= Len(s)
  /\ \A j \in 1..Len(p) : s[i + j - 1] = p[j]

\* Python's `p in s` on two str.
IsSubstring(p, s) == \E i \in 1..(Len(s) + 1) : OccursAt(p, s, i)

-----------------------------------------------------------------------------
(* Python values *)

PyNone == [t |-> "none", n |-> 0, s |-> <<>>, a |-> <<>>, k |-> <<>>]
PyInt(i) == [t |-> "int", n |-> i, s |-> <<>>, a |-> <<>>, k |-> <<>>]
PyBool(b) == [t |-> "bool", n |-> IF b THEN 1 ELSE 0, s |-> <<>>, a |-> <<>>, k |-> <<>>]
PyStr(s) == [t |-> "str", n |-> 0, s |-> s, a |-> <<>>, k |-> <<>>]
PyList(a) == [t |-> "list", n |-> 0, s |-> <<>>, a |-> a, k |-> <<>>]
PyDict(k, a) == [t |-> "dict", n |-> 0, s |-> <<>>, a |-> a, k |-> k]
\* A datetime / pd.Timestamp (UTC); n is the instant.
PyTimestamp(n) == [t |-> "ts", n |-> n, s |-> <<>>, a |-> <<>>, k |-> <<>>]

\* bool(v)
Truthy(v) ==
  CASE v.t = "none" -> FALSE
    [] v.t = "int" -> v.n # 0
    [] v.t = "bool" -> v.n # 0
    [] v.t = "str" -> v.s # <<>>
    [] v.t = "list" -> v.a # <<>>
    [] v.t = "dict" -> v.k # <<>>
    [] OTHER -> TRUE

\* key in d, d a dict.
DictHas(d, key) == \E i \in 1..Len(d.k) : d.k[i] = key

\* d.get(key): None for a missing key.
DictGet(d, key) ==
  IF DictHas(d, key) THEN d.a[CHOOSE i \in 1..Len(d.k) : d.k[i] = key] ELSE PyNone

\* d[key] = v: a repeated key keeps its place and takes the new value.
DictPut(d, key, v) ==
  IF DictHas(d, key)
  THEN PyDict(d.k, [d.a EXCEPT ![CHOOSE i \in 1..Len(d.k) : d.k[i] = key] = v])
  ELSE PyDict(Append(d.k, key), Append(d.a, v))

-----------------------------------------------------------------------------
(* json.dumps / json.loads *)
(* Character codes: 34 ", 44 comma, 45 -, 48..57 0..9, 58 :, 91 [, 92 \,    *)
(* 93 ], 123 {, 125 }, 65..90 A..Z, 97..122 a..z.                           *)

At(s, i) == IF i \in 1..Len(s) THEN s[i] ELSE -1

RECURSIVE NatText(_)
NatText(n) == IF n < 10 THEN <<48 + n>> ELSE NatText(n \div 10) \o <<48 + (n % 10)>>

\* str(i) of an int, which is also its JSON form.
IntText(i) == IF i < 0 THEN <<45>> \o NatText(-i) ELSE NatText(i)

\* 0..9, a..f
HexDigit(d) == IF d < 10 THEN 48 + d ELSE 97 + (d - 10)

HexValue(c) ==
  CASE IsDigit(c) -> c - 48
    [] c \in 97..102 -> c - 97 + 10
    [] c \in 65..70 -> c - 65 + 10
    [] OTHER -> -1

\* json.dumps of one character of a str (ensure_ascii=True): \" \\ \n \r \t
\* \b \f, the character itself, or \uXXXX.
JsonEscape(c) ==
  CASE c = 34 -> <<92, 34>>
    [] c = 92 -> <<92, 92>>
    [] c = 10 -> <<92, 110>>
    [] c = 13 -> <<92, 114>>
    [] c = 9 -> <<92, 116>>
    [] c = 8 -> <<92, 98>>
    [] c = 12 -> <<92, 102>>
    [] c \in 32..126 -> <<c>>
    [] OTHER -> <<92, 117, HexDigit((c \div 4096) % 16),
                  HexDigit((c \div 256) % 16), HexDigit((c \div 16) % 16), HexDigit(c % 16)>>

JsonString(s) == <<34>> \o Concat([i \in 1..Len(s) |-> JsonEscape(s[i])]) \o <<34>>

\* Join texts with a separator text.
RECURSIVE Join(_, _)
Join(ss, sep) ==
  IF ss = <<>> THEN <<>>
  ELSE IF Len(ss) = 1 THEN ss[1]
  ELSE ss[1] \o sep \o Join(Tail(ss), sep)

\* datetime.isoformat() of a UTC-aware timestamp: the instants of the model are
\* the midnights of 2025-10-00 + n, n in 0..9.
IsoFormat(n) ==
  Txt(<<"2", "0", "2", "5", "-", "1", "0", "-", "0">>) \o <<48 + n>>
    \o Txt(<<"T", "0", "0", ":", "0", "0", ":", "0", "0", "+", "0", "0", ":", "0", "0">>)

\* _json_default(o): the conversion json.dumps applies to a value it does
\* not know (here a timestamp).
JsonDefault(o) == PyStr(IsoFormat(o.n))

\* json.dumps(v, separators=(",", ":"), default=_json_default)
RECURSIVE JsonDumps(_)
JsonDumps(v) ==
  CASE v.t = "none" -> <<110, 117, 108, 108>>                   \* null
    [] v.t = "bool" -> IF v.n = 1 THEN <<116, 114, 117, 101>>   \* true
                       ELSE <<102, 97, 108, 115, 101>>          \* false
    [] v.t = "int" -> IntText(v.n)
    [] v.t = "str" -> JsonString(v.s)
    [] v.t = "list" ->
         <<91>> \o Join([i \in 1..Len(v.a) |-> JsonDumps(v.a[i])], <<44>>) \o <<93>>
    [] v.t = "dict" ->
         <<123>>
           \o Join([i \in 1..Len(v.k) |-> JsonString(v.k[i]) \o <<58>> \o JsonDumps(v.a[i])],
                   <<44>>)
           \o <<125>>
    [] OTHER -> JsonDumps(JsonDefault(v))

ParseFail == [ok |-> FALSE, v |-> PyNone, i |-> 0]
ParseOk(v, i) == [ok |-> TRUE, v |-> v, i |-> i]

RECURSIVE SkipWs(_, _)
SkipWs(s, i) == IF At(s, i) \in {32, 9, 10, 13} THEN SkipWs(s, i + 1) ELSE i

RECURSIVE ScanDigits(_, _, _)
ScanDigits(s, i, acc) ==
  IF IsDigit(At(s, i)) THEN ScanDigits(s, i + 1, 10 * acc + (At(s, i) - 48))
  ELSE [n |-> acc, i |-> i]

\* A JSON integer at i: -?(0|[1-9][0-9]*).  (Fractions and exponents, which
\* json.loads reads as floats, are not drawn by any input of the model.)
ParseNumber(s, i) ==
  LET neg == At(s, i) = 45
      j == IF neg THEN i + 1 ELSE i
      d == IF At(s, j) = 48 THEN [n |-> 0, i |-> j + 1] ELSE ScanDigits(s, j, 0)
  IN IF ~IsDigit(At(s, j)) THEN ParseFail
     ELSE ParseOk(PyInt(IF neg THEN -d.n ELSE d.n), d.i)

\* The four hex digits after \u at i: their value, -1 if one is no hex digit.
Hex4(s, i) ==
  IF \A j \in 1..4 : HexValue(At(s, i + j)) >= 0
  THEN 4096 * HexValue(At(s, i + 1)) + 256 * HexValue(At(s, i + 2))
         + 16 * HexValue(At(s, i + 3)) + HexValue(At(s, i + 4))
  ELSE -1

\* The character an escape letter stands for, -1 for a letter that is none:
\* " \ / stand for themselves, n r t b f for control characters.
Unescape(e) ==
  CASE e \in {34, 92, 47} -> e
    [] e = 110 -> 10
    [] e = 114 -> 13
    [] e = 116 -> 9
    [] e = 98 -> 8
    [] e = 102 -> 12
    [] OTHER -> -1

\* The body of a JSON string, i just after the opening quote.
RECURSIVE ParseStringBody(_, _, _)
ParseStringBody(s, i, acc) ==
  LET c == At(s, i)
      e == At(s, i + 1)
  IN CASE c = 34 -> ParseOk(PyStr(acc), i + 1)
       [] c < 32 -> ParseFail
       [] c = 92 /\ e = 117 ->
            IF Hex4(s, i + 1) >= 0
            THEN ParseStringBody(s, i + 6, Append(acc, Hex4(s, i + 1)))
            ELSE ParseFail
       [] c = 92 /\ e # 117 ->
            IF Unescape(e) >= 0
            THEN ParseStringBody(s, i + 2, Append(acc, Unescape(e)))
            ELSE ParseFail
       [] OTHER -> ParseStringBody(s, i + 1, Append(acc, c))

RECURSIVE ParseValue(_, _)
RECURSIVE ParseElements(_, _, _)
RECURSIVE ParseMembers(_, _, _)
RECURSIVE MemberValue(_, _, _)

\* The elements of a JSON array, i at the first character of an element.
ParseElements(s, i, acc) ==
  LET r == ParseValue(s, i)
      j == SkipWs(s, r.i)
  IN IF ~r.ok THEN ParseFail
     ELSE IF At(s, j) = 44 THEN ParseElements(s, SkipWs(s, j + 1), Append(acc, r.v))
     ELSE IF At(s, j) = 93 THEN ParseOk(PyList(Append(acc, r.v)), j + 1)
     ELSE ParseFail

\* The members of a JSON object, i at the quote that opens a key.
ParseMembers(s, i, d) ==
  IF At(s, i) = 34 THEN MemberValue(s, d, ParseStringBody(s, i + 1, <<>>)) ELSE ParseFail

\* The rest of a member whose key was read: the colon, the value, and what
\* follows it.  A repeated key takes the last value.
MemberValue(s, d, key) ==
  LET c == SkipWs(s, key.i)
      r == IF key.ok /\ At(s, c) = 58 THEN ParseValue(s, SkipWs(s, c + 1)) ELSE ParseFail
      j == SkipWs(s, r.i)
  IN IF ~r.ok THEN ParseFail
     ELSE IF At(s, j) = 44
       THEN ParseMembers(s, SkipWs(s, j + 1), DictPut(d, key.v.s, r.v))
     ELSE IF At(s, j) = 125 THEN ParseOk(DictPut(d, key.v.s, r.v), j + 1)
     ELSE ParseFail

\* One JSON value at i (i is not whitespace).
ParseValue(s, i) ==
  LET c == At(s, i)
  IN CASE c = 34 -> ParseStringBody(s, i + 1, <<>>)
       [] c = 123 ->
            IF At(s, SkipWs(s, i + 1)) = 125
            THEN ParseOk(PyDict(<<>>, <<>>), SkipWs(s, i + 1) + 1)
            ELSE ParseMembers(s, SkipWs(s, i + 1), PyDict(<<>>, <<>>))
       [] c = 91 ->
            IF At(s, SkipWs(s, i + 1)) = 93
            THEN ParseOk(PyList(<<>>), SkipWs(s, i + 1) + 1)
            ELSE ParseElements(s, SkipWs(s, i + 1), <<>>)
       [] OccursAt(<<110, 117, 108, 108>>, s, i) -> ParseOk(PyNone, i + 4)
       [] OccursAt(<<116, 114, 117, 101>>, s, i) -> ParseOk(PyBool(TRUE), i + 4)
       [] OccursAt(<<102, 97, 108, 115, 101>>, s, i) -> ParseOk(PyBool(FALSE), i + 5)
       [] c = 45 \/ IsDigit(c) -> ParseNumber(s, i)
       [] OTHER -> ParseFail

\* What json.loads makes of the value read: it raises if there is no value or
\* if data follows it.
WholeText(s, r) ==
  IF r.ok /\ SkipWs(s, r.i) = Len(s) + 1 THEN [ok |-> TRUE, v |-> r.v]
  ELSE [ok |-> FALSE, v |-> PyNone]

\* json.loads(s): [ok, v]; ok is FALSE where json.loads raises.
JsonLoads(s) == WholeText(s, ParseValue(s, SkipWs(s, 1)))

-----------------------------------------------------------------------------
(* base64.urlsafe_b64encode / base64.urlsafe_b64decode *)
(* Character codes: 45 -, 95 _, 43 +, 47 /, 61 = (the pad character).       *)

\* The character of a 6-bit value in the URL-safe alphabet.
B64Char(v) ==
  CASE v < 26 -> 65 + v
    [] v < 52 -> 97 + (v - 26)
    [] v < 62 -> 48 + (v - 52)
    [] v = 62 -> 45
    [] OTHER -> 95

\* The 6-bit value of a character, -1 for a character outside the alphabet.
\* urlsafe_b64decode maps - and _ to + and / and then decodes the standard
\* alphabet, so + and / are read as 62 and 63 too.
B64Value(c) ==
  CASE c \in 65..90 -> c - 65
    [] c \in 97..122 -> c - 97 + 26
    [] IsDigit(c) -> c - 48 + 52
    [] c \in {45, 43} -> 62
    [] c \in {95, 47} -> 63
    [] OTHER -> -1

\* urlsafe_b64encode(b): three bytes to four characters, = padding at the end.
B64Encode(b) ==
  LET n == Len(b)
      byte(i) == IF i <= n THEN b[i] ELSE 0
      quad(g, p) ==
        LET b1 == byte(3 * g + 1)
            b2 == byte(3 * g + 2)
            b3 == byte(3 * g + 3)
        IN CASE p = 0 -> B64Char(b1 \div 4)
             [] p = 1 -> B64Char((b1 % 4) * 16 + b2 \div 16)
             [] p = 2 -> IF 3 * g + 2 > n THEN 61 ELSE B64Char((b2 % 16) * 4 + b3 \div 64)
             [] OTHER -> IF 3 * g + 3 > n THEN 61 ELSE B64Char(b3 % 64)
  IN [i \in 1..(4 * ((n + 2) \div 3)) |-> quad((i - 1) \div 4, (i - 1) % 4)]

\* binascii.a2b_base64 in its default (non-strict) mode, as b64decode calls
\* it.  Characters outside the alphabet are skipped.  A pad character met at
\* position 2 or 3 of a quad counts; once position + pads reaches 4 the
\* input ends there (what follows is ignored).  An input that ends inside a
\* quad without such a pad sequence raises binascii.Error.

\* Whether the input ends at the pad character at i: nData data characters
\* come before i, pads pad characters since the last of them (i included).
B64Done(nData, pads) == nData % 4 >= 2 /\ (nData % 4) + pads >= 4

\* The positions where the input may end.
B64Stops(t) ==
  {i \in 1..Len(t) :
     /\ t[i] = 61
     /\ B64Done(Cardinality({j \in 1..(i - 1) : B64Value(t[j]) >= 0}),
                Cardinality({j \in 1..i : t[j] = 61
                               /\ \A m \in (j + 1)..(i - 1) : B64Value(t[m]) < 0}))}

\* The bytes of the data characters d; ended: whether a pad sequence ended
\* the input.
B64Bytes(d, ended) ==
  LET m == Len(d)
      nBytes == 3 * (m \div 4) + (CASE m % 4 = 2 -> 1 [] m % 4 = 3 -> 2 [] OTHER -> 0)
      byte(g, p) ==
        CASE p = 0 -> B64Value(d[4 * g + 1]) * 4 + B64Value(d[4 * g + 2]) \div 16
          [] p = 1 -> (B64Value(d[4 * g + 2]) % 16) * 16 + B64Value(d[4 * g + 3]) \div 4
          [] OTHER -> (B64Value(d[4 * g + 3]) % 4) * 64 + B64Value(d[4 * g + 4])
  IN IF ~ended /\ m % 4 # 0 THEN [ok |-> FALSE, b |-> <<>>]
     ELSE [ok |-> TRUE, b |-> [i \in 1..nBytes |-> byte((i - 1) \div 3, (i - 1) % 3)]]

\* The data characters of t before the first position of stops.
B64Data(t, stops) ==
  SelectSeq(SubSeq(t, 1, IF stops = {} THEN Len(t)
                         ELSE (CHOOSE i \in stops : \A j \in stops : i <= j) - 1),
            LAMBDA c : B64Value(c) >= 0)

\* The decoding of t given the positions where it may end.
B64Cut(t, stops) == B64Bytes(B64Data(t, stops), stops # {})

\* urlsafe_b64decode(t): [ok, b]; ok is FALSE where it raises binascii.Error.
B64Decode(t) == B64Cut(t, B64Stops(t))

\* bytes.decode(): the texts of the model are ASCII; a byte of 128 or more is
\* taken to raise UnicodeDecodeError (the malformed tokens drawn decode to
\* ASCII or to 0xFF bytes, which no UTF-8 text holds).
Utf8Ok(b) == \A i \in 1..Len(b) : b[i] < 128

-----------------------------------------------------------------------------
(* Module constants of api_model_customers.py *)

CATALOG == "demo"
SCHEMA == "data_api_serving"
TABLE == "customer_details"

\* int(os.getenv("MAX_PAGE_SIZE", "200"))
MAX_LIMIT == 200

\* The page size of a request without a limit: req.get("limit", 50), limit or 50.
DEFAULT_LIMIT == 50

\* The keys of ALLOWED_COLS (and of COL_TYPES), in their order.
ColumnNames == <<"customer_id", "name", "email", "ip_addr", "phone", "modified_ts">>

Columns == {ColumnNames[i] : i \in 1..Len(ColumnNames)}

\* Public projection allowlist.
ALLOWED_COLS == [c \in Columns |-> c]

DEFAULT_SELECT == <<"customer_id", "name", "email">>

COL_TYPES ==
  [customer_id |-> "BIGINT", name |-> "STRING", email |-> "STRING",
   ip_addr |-> "STRING", phone |-> "STRING", modified_ts |-> "TIMESTAMP"]

KEYSET == << <<"modified_ts", "DESC">>, <<"customer_id", "DESC">> >>

\* The text of an identifier of the program (a column name, a filter key, a
\* cursor key).
NameText ==
  [customer_id |-> Txt(<<"c", "u", "s", "t", "o", "m", "e", "r", "_", "i", "d">>), name |-> Txt(<<"n", "a", "m", "e">>), email |-> Txt(<<"e", "m", "a", "i", "l">>),
   ip_addr |-> Txt(<<"i", "p", "_", "a", "d", "d", "r">>), phone |-> Txt(<<"p", "h", "o", "n", "e">>), modified_ts |-> Txt(<<"m", "o", "d", "i", "f", "i", "e", "d", "_", "t", "s">>),
   name_contains |-> Txt(<<"n", "a", "m", "e", "_", "c", "o", "n", "t", "a", "i", "n", "s">>), modified_from |-> Txt(<<"m", "o", "d", "i", "f", "i", "e", "d", "_", "f", "r", "o", "m">>),
   modified_to |-> Txt(<<"m", "o", "d", "i", "f", "i", "e", "d", "_", "t", "o">>), after |-> Txt(<<"a", "f", "t", "e", "r">>)]

-----------------------------------------------------------------------------
(* Python built-ins used by the request normaliser *)

\* str.replace(old, new): every occurrence, left to right.
RECURSIVE Replace(_, _, _)
Replace(s, old, new) ==
  IF s = <<>> THEN <<>>
  ELSE IF OccursAt(old, s, 1) THEN new \o Replace(SubSeq(s, Len(old) + 1, Len(s)), old, new)
  ELSE <<Head(s)>> \o Replace(Tail(s), old, new)

\* str.split(sep), sep one character: the pieces between the separators.
Split(s, sep) ==
  LET cuts == {i \in 1..Len(s) : s[i] = sep}
      \* the start of piece p is just after the (p-1)-th separator
      nth(p) == CHOOSE i \in cuts : Cardinality({j \in cuts : j < i}) = p - 1
      from(p) == IF p = 1 THEN 1 ELSE nth(p - 1) + 1
      to(p) == IF p = Cardinality(cuts) + 1 THEN Len(s) ELSE nth(p) - 1
  IN [p \in 1..(Cardinality(cuts) + 1) |-> SubSeq(s, from(p), to(p))]

\* The characters of s from the first to the last of the positions in keep.
Between(s, keep) ==
  IF keep = {} THEN <<>>
  ELSE SubSeq(s, CHOOSE i \in keep : \A j \in keep : i <= j,
                 CHOOSE i \in keep : \A j \in keep : i >= j)

\* str.strip()
Strip(s) == Between(s, {i \in 1..Len(s) : ~IsSpace(s[i])})

\* repr(v) of a value read from JSON (a str without quote characters):
\* None, True, False, the digits, '...', [.., ..], {'..': .., ..}.
RECURSIVE PyRepr(_)
PyRepr(v) ==
  CASE v.t = "none" -> <<78, 111, 110, 101>>
    [] v.t = "bool" -> IF v.n = 1 THEN <<84, 114, 117, 101>> ELSE <<70, 97, 108, 115, 101>>
    [] v.t = "int" -> IntText(v.n)
    [] v.t = "str" -> <<39>> \o v.s \o <<39>>
    [] v.t = "list" ->
         <<91>> \o Join([i \in 1..Len(v.a) |-> PyRepr(v.a[i])], <<44, 32>>) \o <<93>>
    [] OTHER ->
         <<123>>
           \o Join([i \in 1..Len(v.k) |-> PyRepr(PyStr(v.k[i])) \o <<58, 32>> \o PyRepr(v.a[i])],
                   <<44, 32>>)
           \o <<125>>

\* str(v)
StrOf(v) == IF v.t = "str" THEN v.s ELSE PyRepr(v)

\* int(s) of a stripped text s: an optional sign (45 -, 43 +) and decimal
\* digits; ValueError for any other text.
IntOfText(s) ==
  LET signed == s # <<>> /\ s[1] \in {45, 43}
      digits == IF signed THEN Tail(s) ELSE s
  IN IF digits # <<>> /\ \A i \in 1..Len(digits) : IsDigit(digits[i])
     THEN [ok |-> TRUE,
           n |-> IF s[1] = 45 THEN -ScanDigits(digits, 1, 0).n ELSE ScanDigits(digits, 1, 0).n,
           err |-> ""]
     ELSE [ok |-> FALSE, n |-> 0, err |-> "ValueError"]

\* int(v): [ok, n, err]; ok is FALSE where int() raises err.
IntOf(v) ==
  CASE v.t \in {"int", "bool"} -> [ok |-> TRUE, n |-> v.n, err |-> ""]
    [] v.t = "str" -> IntOfText(Strip(v.s))
    [] OTHER -> [ok |-> FALSE, n |-> 0, err |-> "TypeError"]

\* `key in c` for a value c read from JSON: "yes", "no", or "raise" (TypeError:
\* an int, a bool or None is not iterable).
Contains(c, key) ==
  CASE c.t = "dict" -> IF DictHas(c, key) THEN "yes" ELSE "no"
    [] c.t = "list" -> IF \E i \in 1..Len(c.a) : c.a[i] = PyStr(key) THEN "yes" ELSE "no"
    [] c.t = "str" -> IF IsSubstring(key, c.s) THEN "yes" ELSE "no"
    [] OTHER -> "raise"

-----------------------------------------------------------------------------
(* Pagination codec and request normaliser *)

\* _jsonable(v): a timestamp becomes its ISO-8601 text with +00:00 written Z;
\* containers are converted element by element.
RECURSIVE Jsonable(_)
Jsonable(v) ==
  CASE v.t = "ts" -> PyStr(Replace(IsoFormat(v.n), Txt(<<"+", "0", "0", ":", "0", "0">>),
                                   Txt(<<"Z">>)))
    [] v.t = "list" -> PyList([i \in 1..Len(v.a) |-> Jsonable(v.a[i])])
    [] v.t = "dict" -> PyDict(v.k, [i \in 1..Len(v.a) |-> Jsonable(v.a[i])])
    [] OTHER -> v

\* The token without its = padding (which _unb64 does not put back).
B64Unpadded(d) == SelectSeq(B64Encode(JsonDumps(d)), LAMBDA c : c # 61)

\* _b64(d)
B64(d) == B64Encode(JsonDumps(d))

EmptyDict == PyDict(<<>>, <<>>)

\* try: return json.loads(...) / except Exception: return {}
LoadedOrEmpty(r) == IF r.ok THEN r.v ELSE EmptyDict

\* The same for the bytes b64decode returned, if it returned: .decode() and
\* json.loads may raise in their turn.
DecodedOrEmpty(b) ==
  IF ~b.ok \/ ~Utf8Ok(b.b) THEN EmptyDict ELSE LoadedOrEmpty(JsonLoads(b.b))

\* _unb64(t): the value json.loads returns, {} for no token and for every
\* exception (t.encode() of a value that is no str, binascii.Error,
\* UnicodeDecodeError, JSONDecodeError).
Unb64(t) ==
  IF ~Truthy(t) \/ t.t # "str" THEN EmptyDict ELSE DecodedOrEmpty(B64Decode(t.s))

\* The catalog entries whose key is the text c: ALLOWED_COLS[c] for c in
\* ALLOWED_COLS, nothing otherwise.
Allowed(c) == {ALLOWED_COLS[name] : name \in {k \in DOMAIN ALLOWED_COLS : NameText[k] = c}}

\* The pieces kept as they are if they are not blank, not stripped.
SelectPartsUnstripped(parts) == SelectSeq(parts, LAMBDA c : Strip(c) # <<>>)

\* [c.strip() for c in select_csv.split(",") if c.strip()]
SelectParts(parts) ==
  SelectSeq([i \in 1..Len(parts) |-> Strip(parts[i])], LAMBDA c : c # <<>>)

\* [ALLOWED_COLS[c] for c in cols if c in ALLOWED_COLS] or DEFAULT_SELECT
SafeOrDefault(hits) ==
  IF \E i \in 1..Len(hits) : hits[i] # {}
  THEN LET kept == SelectSeq(hits, LAMBDA h : h # {})
       IN [i \in 1..Len(kept) |-> CHOOSE col \in kept[i] : TRUE]
  ELSE DEFAULT_SELECT

\* The catalog entries of each requested column.
Lookup(cols) == [i \in 1..Len(cols) |-> Allowed(cols[i])]

\* _parse_select(select_csv), select_csv a str or None.
ParseSelect(select_csv) ==
  IF ~Truthy(select_csv) THEN DEFAULT_SELECT
  ELSE SafeOrDefault(Lookup(SelectParts(Split(select_csv.s, 44))))

\* `k in f_in and f_in[k] ...` raises: f_in is not iterable, or it is a list
\* or a str that holds the key (subscripting it with a str raises TypeError).
FilterRaises(f_in, key) ==
  \/ Contains(f_in, key) = "raise"
  \/ Contains(f_in, key) = "yes" /\ f_in.t # "dict"

\* f_in[k] not in (None, "")
NotBlank(v) == ~(v.t = "none" \/ (v.t = "str" /\ v.s = <<>>))

FilterKeys ==
  {"email", "name", "ip_addr", "phone", "customer_id", "name_contains",
   "modified_from", "modified_to"}

\* The test _parse_filters puts on the value v of key k of the dict f_in
\* (v is None if the key is missing):
\*   k in f_in and f_in[k] not in (None, "")   for the equality filters,
\*   k in f_in and f_in[k]                      for the others.
FilterKept(k, v) ==
  IF k \in {"email", "name", "ip_addr", "phone", "customer_id"} THEN NotBlank(v)
  ELSE Truthy(v)

\* The value _parse_filters stores for key k: str(v), int(v), str(v).lower().
FilterNorm(k, v) ==
  CASE k = "customer_id" -> PyInt(IntOf(v).n)
    [] k = "name_contains" -> PyStr(Lower(StrOf(v)))
    [] OTHER -> PyStr(StrOf(v))

\* The empty filter set: a filter set maps its keys to their values.
NoFilters == [k \in {} |-> PyNone]

\* The filter set of the dict f_in: its keys are the keys that pass their
\* test.
FilterSet(f_in) ==
  [k \in {k \in FilterKeys : FilterKept(k, DictGet(f_in, NameText[k]))} |->
     FilterNorm(k, DictGet(f_in, NameText[k]))]

\* int(f_in["customer_id"]) for a dict f_in that holds a customer_id that is
\* not blank: [ok, n, err]; ok where the key does not pass its test.
FilterId(id) == IF NotBlank(id) THEN IntOf(id) ELSE [ok |-> TRUE, n |-> 0, err |-> ""]

\* The filter set, or the exception int() raised.
FilterSetOrRaise(f_in, id) ==
  IF ~id.ok THEN [err |-> id.err, f |-> NoFilters] ELSE [err |-> "", f |-> FilterSet(f_in)]

\* _parse_filters after json.loads: [err, f].  A value that is no dict raises
\* TypeError at the first key, or holds no key and gives the empty set.
Normalise(f_in) ==
  IF \E k \in FilterKeys : FilterRaises(f_in, NameText[k])
  THEN [err |-> "TypeError", f |-> NoFilters]
  ELSE IF f_in.t # "dict" THEN [err |-> "", f |-> NoFilters]
  ELSE FilterSetOrRaise(f_in, FilterId(DictGet(f_in, NameText["customer_id"])))

\* _parse_filters(filters_json): [err, f]; err names the exception that
\* escapes ("" for none), f is the filter set.  No filters_json, and one that
\* json.loads rejects, give the empty set.
ParseFilters(filters_json) ==
  IF ~Truthy(filters_json) \/ filters_json.t # "str" THEN [err |-> "", f |-> NoFilters]
  ELSE Normalise(LoadedOrEmpty(JsonLoads(filters_json.s)))

-----------------------------------------------------------------------------
(* Query compiler *)

\* _sql_cast_param(col, pname)
SqlCastParam(col, pname) ==
  LET t == IF col \in DOMAIN COL_TYPES THEN COL_TYPES[col] ELSE "STRING"
  IN CASE t \in {"BIGINT", "INT"} -> "CAST(:" \o pname \o " AS BIGINT)"
       [] t \in {"DOUBLE", "FLOAT", "DECIMAL"} -> "CAST(:" \o pname \o " AS DOUBLE)"
       [] t = "TIMESTAMP" -> "CAST(:" \o pname \o " AS TIMESTAMP)"
       [] OTHER -> ":" \o pname

\* " AND ".join(parts), " OR ".join(clauses), ", ".join(cols)
RECURSIVE JoinStr(_, _)
JoinStr(ss, sep) ==
  IF ss = <<>> THEN ""
  ELSE IF Len(ss) = 1 THEN ss[1]
  ELSE ss[1] \o sep \o JoinStr(Tail(ss), sep)

\* The name of the bound parameter of keyset column number j (0-based): f"k{j}".
KeyParam(j) == "k" \o TextString(NatText(j))

\* len(after_vals): -1 where len() raises TypeError.
PyLen(v) ==
  CASE v.t = "list" -> Len(v.a)
    [] v.t = "str" -> Len(v.s)
    [] v.t = "dict" -> Len(v.k)
    [] OTHER -> -1

\* after_vals[j] (0-based) for a list or a str of enough length.
PyIndex(v, j) == IF v.t = "list" THEN v.a[j + 1] ELSE PyStr(<<v.s[j + 1]>>)

\* parts of clause i of the keyset predicate: column j = its parameter for
\* j < i, column i < (DESC) or > its parameter.
KeysetPart(keys, i, j) ==
  IF j < i THEN ALLOWED_COLS[keys[j][1]] \o " = " \o SqlCastParam(keys[j][1], KeyParam(j - 1))
  ELSE ALLOWED_COLS[keys[i][1]] \o " " \o (IF keys[i][2] = "DESC" THEN "<" ELSE ">") \o " "
         \o SqlCastParam(keys[i][1], KeyParam(i - 1))

\* What _build_keyset_where returns where it raises err.
KeysetRaised(err) == [err |-> err, pred |-> "", params |-> [k \in {} |-> PyNone]]

\* _build_keyset_where(keys, after_vals): [err, pred, params].
\* err: TypeError (len of an int or bool), AssertionError (wrong length),
\* KeyError (subscript of a dict by an int).
BuildKeysetWhere(keys, after_vals) ==
  IF PyLen(after_vals) < 0 THEN KeysetRaised("TypeError")
  ELSE IF PyLen(after_vals) # Len(keys) THEN KeysetRaised("AssertionError")
  ELSE IF after_vals.t = "dict" /\ Len(keys) > 0 THEN KeysetRaised("KeyError")
  ELSE [err |-> "",
        pred |-> JoinStr([i \in 1..Len(keys) |->
                            "(" \o JoinStr([j \in 1..i |-> KeysetPart(keys, i, j)], " AND ")
                              \o ")"],
                         " OR "),
        params |-> [k \in {KeyParam(i - 1) : i \in 1..Len(keys)} |->
                      PyIndex(after_vals,
                              (CHOOSE i \in 1..Len(keys) : KeyParam(i - 1) = k) - 1)]]

\* max(1, min(v, MAX_LIMIT)) of the outcome v of int(): [ok, n, err].
Clamp(v) ==
  IF ~v.ok THEN [ok |-> FALSE, n |-> 0, err |-> v.err]
  ELSE IF v.n > MAX_LIMIT THEN [ok |-> TRUE, n |-> MAX_LIMIT, err |-> ""]
  ELSE IF v.n < 1 THEN [ok |-> TRUE, n |-> 1, err |-> ""]
  ELSE [ok |-> TRUE, n |-> v.n, err |-> ""]

\* page_size = max(1, min(int(limit or 50), MAX_LIMIT)): [ok, n, err].
PageSize(limit) == Clamp(IntOf(IF Truthy(limit) THEN limit ELSE PyInt(DEFAULT_LIMIT)))

\* The predicate of a filter key with the value pasted into its text.
FilterClauseInline(k, v) ==
  [text |-> k \o " = '" \o TextString(StrOf(v)) \o "'", params |-> k :> v]

\* The text and the bound parameters of the predicate of one filter key.
FilterClause(k, v) ==
  CASE k = "email" ->
         [text |-> "lower(email) = :email_lc", params |-> "email_lc" :> PyStr(Lower(v.s))]
    [] k = "name" -> [text |-> "name = :name", params |-> "name" :> v]
    [] k = "name_contains" ->
         [text |-> "lower(name) LIKE :name_like",
          params |-> "name_like" :> PyStr(<<37>> \o v.s \o <<37>>)]       \* %...%
    [] k = "customer_id" ->
         [text |-> "customer_id = " \o SqlCastParam("customer_id", "customer_id"),
          params |-> "customer_id" :> v]
    [] k = "ip_addr" -> [text |-> "ip_addr = :ip_addr", params |-> "ip_addr" :> v]
    [] k = "phone" -> [text |-> "phone = :phone", params |-> "phone" :> v]
    [] k = "modified_from" ->
         [text |-> "modified_ts >= " \o SqlCastParam("modified_ts", "modified_from"),
          params |-> "modified_from" :> v]
    [] OTHER ->
         [text |-> "modified_ts < " \o SqlCastParam("modified_ts", "modified_to"),
          params |-> "modified_to" :> v]

\* The order in which _build_sql tests the filter keys.
FilterOrder ==
  <<"email", "name", "name_contains", "customer_id", "ip_addr", "phone",
    "modified_from", "modified_to">>

RECURSIVE MergeParams(_)
MergeParams(ps) == IF ps = <<>> THEN [k \in {} |-> PyNone] ELSE Head(ps) @@ MergeParams(Tail(ps))

\* The predicates and parameters of the filters, in the order of the tests.
FilterClauses(filters) ==
  LET present == SelectSeq(FilterOrder, LAMBDA k : k \in DOMAIN filters)
  IN [i \in 1..Len(present) |-> FilterClause(present[i], filters[present[i]])]

\* What _build_sql returns where it raises err.
BuildRaised(err) ==
  [err |-> err, stmt |-> "", params |-> [k \in {} |-> PyNone],
   internal_select |-> <<>>, public_select |-> <<>>, where |-> <<>>]

\* _unb64(cursor).get("after") of the decoded cursor: [err, v]; .get raises
\* AttributeError on a value that is no dict.
GetAfter(decoded) ==
  IF decoded.t # "dict" THEN [err |-> "AttributeError", v |-> PyNone]
  ELSE [err |-> "", v |-> DictGet(decoded, NameText["after"])]

\* after_vals = _unb64(cursor).get("after") if cursor else None
AfterVals(cursor) ==
  IF Truthy(cursor) THEN GetAfter(Unb64(cursor)) ELSE [err |-> "", v |-> PyNone]

\* if after_vals: pred, pred_params = _build_keyset_where(KEYSET, after_vals)
\* [err, on, pred, params]; on: whether the keyset predicate is added.
Keyset(on, r) == [err |-> r.err, on |-> on, pred |-> r.pred, params |-> r.params]

KeysetOf(after) ==
  IF after.err # "" THEN Keyset(FALSE, KeysetRaised(after.err))
  ELSE IF ~Truthy(after.v) THEN Keyset(FALSE, KeysetRaised(""))
  ELSE Keyset(TRUE, BuildKeysetWhere(KEYSET, after.v))

\* The keyset predicate put in place of the filters' predicates.
WhereKeysetOnly(fclauses, ks) ==
  IF ks.on THEN <<"(" \o ks.pred \o ")">> ELSE [i \in 1..Len(fclauses) |-> fclauses[i].text]

\* The list where: the predicates of the filters, then (pred) of the keyset.
WhereOf(fclauses, ks) ==
  [i \in 1..Len(fclauses) |-> fclauses[i].text]
    \o (IF ks.on THEN <<"(" \o ks.pred \o ")">> ELSE <<>>)

\* The dict params before lim is put in it.
ParamsOf(fclauses, ks) ==
  IF ks.on THEN ks.params @@ MergeParams([i \in 1..Len(fclauses) |-> fclauses[i].params])
  ELSE MergeParams([i \in 1..Len(fclauses) |-> fclauses[i].params])

\* internal_select: select_cols[:] and the keyset columns it lacks.
InternalSelect(select_cols) ==
  select_cols \o SelectSeq([i \in 1..Len(KEYSET) |-> KEYSET[i][1]],
                           LAMBDA c : \A i \in 1..Len(select_cols) : select_cols[i] # c)

\* The statement text.
Statement(internal_select, where) ==
  "\n      SELECT " \o JoinStr(internal_select, ", ")
    \o "\n      FROM " \o CATALOG \o "." \o SCHEMA \o "." \o TABLE
    \o "\n      " \o (IF where # <<>> THEN " WHERE " \o JoinStr(where, " AND ") ELSE "")
    \o "\n      ORDER BY "
    \o JoinStr([i \in 1..Len(KEYSET) |-> ALLOWED_COLS[KEYSET[i][1]] \o " " \o KEYSET[i][2]], ", ")
    \o "\n      LIMIT :lim\n    "

\* What _build_sql returns: where is the list of predicates that where_sql
\* joins (the statement as the warehouse reads it).
Built(select_cols, internal_select, where, params, lim) ==
  [err |-> "", stmt |-> Statement(internal_select, where),
   params |-> ("lim" :> PyInt(lim)) @@ params,
   internal_select |-> internal_select, public_select |-> select_cols, where |-> where]

\* lim bound to the page size alone: no lookahead row is fetched.
NoLookahead(page_size) == page_size

\* params["lim"] = page_size + 1
Lookahead(page_size) == page_size + 1

\* _build_sql once the filters' clauses, the keyset predicate and the page
\* size are known; the cursor raises before int(limit) does.
Compose(select_cols, fclauses, ks, ps) ==
  IF ks.err # "" THEN BuildRaised(ks.err)
  ELSE IF ~ps.ok THEN BuildRaised(ps.err)
  ELSE Built(select_cols, InternalSelect(select_cols), WhereOf(fclauses, ks),
             ParamsOf(fclauses, ks), Lookahead(ps.n))

\* _build_sql(select_cols, filters, limit, cursor):
\* [err, stmt, params, internal_select, public_select, where].
BuildSql(select_cols, filters, limit, cursor) ==
  Compose(select_cols, FilterClauses(filters), KeysetOf(AfterVals(cursor)), PageSize(limit))

-----------------------------------------------------------------------------
(* The warehouse: cur.execute(stmt, params); cur.fetchall()                 *)
(* A table row is [customer_id, name, email, ip_addr, phone, modified_ts],  *)
(* customer_id an integer, modified_ts an instant, the others texts.        *)

\* The forms of a timestamp text after its date: nothing, T00:00:00, and
\* that with Z or +00:00.
MidnightForms ==
  {<<>>} \cup {Txt(<<"T", "0", "0", ":", "0", "0", ":", "0", "0">>) \o zone :
                 zone \in {<<>>, Txt(<<"Z">>), Txt(<<"+", "0", "0", ":", "0", "0">>)}}

\* CAST(v AS TIMESTAMP) of a bound value: [ok, null, n].  A text casts where
\* it is an ISO-8601 date or date-time of the model's instants; any other
\* text fails the statement (ANSI mode), and so does a value that is no text.
CastTimestamp(v) ==
  CASE v.t = "none" -> [ok |-> TRUE, null |-> TRUE, n |-> 0]
    [] /\ v.t = "str"
       /\ Len(v.s) >= 10
       /\ SubSeq(v.s, 1, 9) = Txt(<<"2", "0", "2", "5", "-", "1", "0", "-", "0">>)
       /\ IsDigit(v.s[10])
       /\ SubSeq(v.s, 11, Len(v.s)) \in MidnightForms ->
         [ok |-> TRUE, null |-> FALSE, n |-> v.s[10] - 48]
    [] OTHER -> [ok |-> FALSE, null |-> FALSE, n |-> 0]

\* The outcome of a cast to BIGINT from the outcome of reading the integer.
BigintOf(r) ==
  IF r.ok THEN [ok |-> TRUE, null |-> FALSE, n |-> r.n]
  ELSE [ok |-> FALSE, null |-> FALSE, n |-> 0]

\* CAST(v AS BIGINT) of a bound value: [ok, null, n].
CastBigint(v) ==
  CASE v.t = "none" -> [ok |-> TRUE, null |-> TRUE, n |-> 0]
    [] v.t \in {"int", "bool", "str"} -> BigintOf(IntOf(v))
    [] OTHER -> [ok |-> FALSE, null |-> FALSE, n |-> 0]

\* s LIKE pat: % (37) matches any run of characters, _ (95) any one character.
RECURSIVE Like(_, _)
Like(s, pat) ==
  IF pat = <<>> THEN s = <<>>
  ELSE IF Head(pat) = 37
    THEN Like(s, Tail(pat)) \/ (s # <<>> /\ Like(Tail(s), pat))
  ELSE /\ s # <<>>
       /\ Head(pat) = 95 \/ Head(pat) = Head(s)
       /\ Like(Tail(s), Tail(pat))

KeysetPredicate ==
  "((modified_ts < CAST(:k0 AS TIMESTAMP)) OR "
    \o "(modified_ts = CAST(:k0 AS TIMESTAMP) AND customer_id < CAST(:k1 AS BIGINT)))"

\* The predicates the warehouse is given by this program, as it reads them:
\* the parameters each names, the cast of each parameter ("" for none), the
\* column it tests and the comparison.
Predicates ==
  [p \in {"lower(email) = :email_lc", "name = :name", "lower(name) LIKE :name_like",
          "customer_id = CAST(:customer_id AS BIGINT)", "ip_addr = :ip_addr",
          "phone = :phone", "modified_ts >= CAST(:modified_from AS TIMESTAMP)",
          "modified_ts < CAST(:modified_to AS TIMESTAMP)", KeysetPredicate} |->
     CASE p = "lower(email) = :email_lc" ->
            [names |-> <<"email_lc">>, casts |-> <<"">>, col |-> "email", op |-> "lower="]
       [] p = "name = :name" ->
            [names |-> <<"name">>, casts |-> <<"">>, col |-> "name", op |-> "="]
       [] p = "lower(name) LIKE :name_like" ->
            [names |-> <<"name_like">>, casts |-> <<"">>, col |-> "name", op |-> "like"]
       [] p = "customer_id = CAST(:customer_id AS BIGINT)" ->
            [names |-> <<"customer_id">>, casts |-> <<"BIGINT">>, col |-> "customer_id",
             op |-> "="]
       [] p = "ip_addr = :ip_addr" ->
            [names |-> <<"ip_addr">>, casts |-> <<"">>, col |-> "ip_addr", op |-> "="]
       [] p = "phone = :phone" ->
            [names |-> <<"phone">>, casts |-> <<"">>, col |-> "phone", op |-> "="]
       [] p = "modified_ts >= CAST(:modified_from AS TIMESTAMP)" ->
            [names |-> <<"modified_from">>, casts |-> <<"TIMESTAMP">>, col |-> "modified_ts",
             op |-> ">="]
       [] p = "modified_ts < CAST(:modified_to AS TIMESTAMP)" ->
            [names |-> <<"modified_to">>, casts |-> <<"TIMESTAMP">>, col |-> "modified_ts",
             op |-> "<"]
       [] OTHER ->
            [names |-> <<"k0", "k1">>, casts |-> <<"TIMESTAMP", "BIGINT">>, col |-> "",
             op |-> "keyset"]]

\* The value of a parameter marker under its cast: [ok, null, n, s]; a text
\* that is not cast stays a text (s).
Bind(v, cast) ==
  CASE cast = "TIMESTAMP" -> [s |-> <<>>] @@ CastTimestamp(v)
    [] cast = "BIGINT" -> [s |-> <<>>] @@ CastBigint(v)
    [] OTHER -> [ok |-> TRUE, null |-> v.t # "str", n |-> 0, s |-> v.s]

\* Whether the statement fails on the predicate: it is none the warehouse
\* can read, a parameter it names is missing or is no scalar a marker can
\* bind, or a cast fails.
PredicateFails(pred, params) ==
  \/ pred \notin DOMAIN Predicates
  \/ \E i \in 1..Len(Predicates[pred].names) :
       \/ Predicates[pred].names[i] \notin DOMAIN params
       \/ params[Predicates[pred].names[i]].t \notin {"none", "int", "bool", "str"}
       \/ ~Bind(params[Predicates[pred].names[i]], Predicates[pred].casts[i]).ok

\* Whether the comparison op is TRUE of the column value and the bound
\* values b (a comparison with NULL is not).  row is the table row.
Compare(op, col, b, row) ==
  CASE op = "lower=" -> ~b[1].null /\ Lower(row[col]) = b[1].s
    [] op = "like" -> ~b[1].null /\ Like(Lower(row[col]), b[1].s)
    [] op = "=" /\ col = "customer_id" -> ~b[1].null /\ row[col] = b[1].n
    [] op = "=" /\ col # "customer_id" -> ~b[1].null /\ row[col] = b[1].s
    [] op = ">=" -> ~b[1].null /\ row[col] >= b[1].n
    [] op = "<" -> ~b[1].null /\ row[col] < b[1].n
    [] OTHER ->
         \/ ~b[1].null /\ row.modified_ts < b[1].n
         \/ ~b[1].null /\ row.modified_ts = b[1].n /\ ~b[2].null /\ row.customer_id < b[2].n

\* Whether predicate p (an entry of Predicates) is TRUE of the row.
Holds(p, params, row) ==
  Compare(p.op, p.col, [i \in 1..Len(p.names) |-> Bind(params[p.names[i]], p.casts[i])], row)

PredicateHolds(pred, params, row) == Holds(Predicates[pred], params, row)

\* ORDER BY modified_ts DESC, customer_id DESC
Before(r1, r2) ==
  \/ r1.modified_ts > r2.modified_ts
  \/ r1.modified_ts = r2.modified_ts /\ r1.customer_id > r2.customer_id

\* The rows of a set in ORDER BY order (customer_id is unique in a table).
Ordered(rows) ==
  [i \in 1..Cardinality(rows) |->
     CHOOSE r \in rows : Cardinality({q \in rows : Before(q, r)}) = i - 1]

\* The value the connector returns for a column of a row.
ColumnValue(row, c) ==
  CASE c = "customer_id" -> PyInt(row.customer_id)
    [] c = "modified_ts" -> PyTimestamp(row.modified_ts)
    [] OTHER -> PyStr(row[c])

\* The rows of the table the WHERE predicates are all TRUE of.
Matching(tbl, where, params) ==
  {r \in tbl : \A i \in 1..Len(where) : PredicateHolds(where[i], params, r)}

\* LIMIT lim
Take(sorted, lim) == SubSeq(sorted, 1, IF lim < Len(sorted) THEN lim ELSE Len(sorted))

\* The tuples of the SELECT list.
Project(taken, cols) ==
  [r \in 1..Len(taken) |-> [i \in 1..Len(cols) |-> ColumnValue(taken[r], cols[i])]]

\* The statement run on a table: [err, rows]; rows in ORDER BY order, at most
\* :lim of them, each a tuple of the values of the SELECT list.
Execute(tbl, q) ==
  IF \E i \in 1..Len(q.where) : PredicateFails(q.where[i], q.params)
  THEN [err |-> "ServerOperationError", rows |-> <<>>]
  ELSE [err |-> "",
        rows |-> Project(Take(Ordered(Matching(tbl, q.where, q.params)), q.params["lim"].n),
                         q.internal_select)]

-----------------------------------------------------------------------------
(* Page assembler: CustomersAPI.predict *)

\* items = [{cols[i]: rows[r][i] for i in range(len(cols))} for r in ...]
\* An item maps its column names to values.
RowItems(cols, rows) ==
  [r \in 1..Len(rows) |->
     [c \in {cols[i] : i \in 1..Len(cols)} |->
        rows[r][CHOOSE i \in 1..Len(cols) : cols[i] = c /\ \A j \in (i + 1)..Len(cols) : cols[j] # c]]]

\* has_more with the comparison off by one: a full page counts as more.
HasMoreOrEqual(items, page_size) == Len(items) >= page_size

\* has_more = len(items) > page_size
HasMore(items, page_size) == Len(items) > page_size

\* The cursor taken from the lookahead row instead of the last returned one.
LastFetched(items, page_size) == items[page_size + 1]

\* last = items[page_size - 1]: the last item the page returns.
LastReturned(items, page_size) == items[page_size]

\* ks_vals = [_jsonable(last[k]) for (k, _) in KEYSET]; _b64({"after": ks_vals})
NextCursor(last) ==
  PyStr(B64(PyDict(<<NameText["after"]>>,
                   <<PyList([i \in 1..Len(KEYSET) |-> Jsonable(last[KEYSET[i][1]])])>>)))

\* The page left with its lookahead row.
Untrimmed(items, page_size) == items

\* items[:page_size]
Trim(items, page_size) ==
  SubSeq(items, 1, IF page_size < Len(items) THEN page_size ELSE Len(items))

\* The keyset columns dropped whether the caller asked for them or not.
DropKeysetAlways(items, public_select) ==
  [r \in 1..Len(items) |->
     [c \in (DOMAIN items[r]) \ {KEYSET[i][1] : i \in 1..Len(KEYSET)} |-> items[r][c]]]

\* for k, _ in KEYSET: if k not in public_select: it.pop(k, None)
DropKeyset(items, public_select) ==
  [r \in 1..Len(items) |->
     [c \in (DOMAIN items[r]) \ ({KEYSET[i][1] : i \in 1..Len(KEYSET)}
                                   \ {public_select[i] : i \in 1..Len(public_select)}) |->
        items[r][c]]]

\* _jsonify_items(items) (the second definition, which is the one in force)
JsonifyItems(items) ==
  [r \in 1..Len(items) |-> [c \in DOMAIN items[r] |-> Jsonable(items[r][c])]]

NoQuery ==
  [err |-> "", stmt |-> "", params |-> [k \in {} |-> PyNone], internal_select |-> <<>>,
   public_select |-> <<>>, where |-> <<>>]

\* The outcome of a request that raises err.
Raised(err) ==
  [status |-> "error", err |-> err, count |-> 0, items |-> <<>>, next_cursor |-> PyNone,
   has_more |-> FALSE]

NoResponse ==
  [status |-> "none", err |-> "", count |-> 0, items |-> <<>>, next_cursor |-> PyNone,
   has_more |-> FALSE]

\* The response: {"items", "count", "next_cursor", "has_more"}.
Response(page, next_cursor, has_more) ==
  [status |-> "ok", err |-> "", count |-> Len(page), items |-> page,
   next_cursor |-> next_cursor, has_more |-> has_more]

\* The page of the items fetched: the cursor of the last item returned and
\* the truncation if there are more than page_size, then the keyset columns
\* the caller did not ask for are dropped and the values made JSON-safe.
Assemble(items, page_size, public_select) ==
  IF HasMore(items, page_size)
  THEN Response(JsonifyItems(DropKeyset(Trim(items, page_size), public_select)),
                NextCursor(LastReturned(items, page_size)), TRUE)
  ELSE Response(JsonifyItems(DropKeyset(items, public_select)), PyNone, FALSE)

\* predict after cur.execute: ex is [err, rows].
Fetched(q, ex, page_size) ==
  IF ex.err # "" THEN [resp |-> Raised(ex.err), query |-> q, rows |-> <<>>]
  ELSE [resp |-> Assemble(RowItems(q.internal_select, ex.rows), page_size, q.public_select),
        query |-> q, rows |-> ex.rows]

\* predict after _build_sql: q is what it returned.
Planned(tbl, limit, up, q) ==
  IF q.err # "" THEN [resp |-> Raised(q.err), query |-> NoQuery, rows |-> <<>>]
  ELSE IF ~up THEN [resp |-> Raised("OperationalError"), query |-> q, rows |-> <<>>]
  ELSE Fetched(q, Execute(tbl, q), PageSize(limit).n)

\* predict after _parse_filters: filters is [err, f].
Parsed(tbl, req, up, filters) ==
  IF filters.err # "" THEN [resp |-> Raised(filters.err), query |-> NoQuery, rows |-> <<>>]
  ELSE Planned(tbl, req.limit, up,
               BuildSql(ParseSelect(req.select_csv), filters.f, req.limit, req.cursor))

\* predict(context, model_input) on a table: [resp, query, rows].
\* req is [select_csv, filters_json, limit, cursor], None for an absent field
\* (req.get("limit", 50) and `limit or 50` give an absent and a None limit the
\* same page size).  up: whether the warehouse answers (sql.connect and
\* cur.execute raise otherwise).  query is what _build_sql returned (NoQuery
\* if it was not reached or raised), rows what fetchall returned.
Predict(tbl, req, up) == Parsed(tbl, req, up, ParseFilters(req.filters_json))

-----------------------------------------------------------------------------
(* State *)

VARIABLES
  table,    \* the rows of demo.data_api_serving.customer_details
  call,     \* the caller's fixed fields [select_csv, filters_json, limit]
  cur,      \* client.py: the cursor of the next page (None at first)
  n,        \* client.py: the page number
  pc,       \* where the walk is: "page", "serve", "check", "done", "failed"
  req,      \* the request being served
  query,    \* what _build_sql returned for the request last served
  rows,     \* what fetchall returned for the request last served
  res,      \* the response last received
  seen,     \* the items of the pages printed so far, in order
  kept,     \* the rows that were in the table at every moment of the walk so far
  writes,   \* the number of writes to the table since the walk began
  heap,     \* the list and dict objects of the serving process, by reference
  calls     \* the predict calls in flight in the serving process

vars == <<table, call, cur, n, pc, req, query, rows, res, seen, kept, writes, heap, calls>>

NoRequest == [select_csv |-> PyNone, filters_json |-> PyNone, limit |-> PyNone, cursor |-> PyNone]

-----------------------------------------------------------------------------
(* The tables and the requests drawn *)

\* Bounds of the model.
NumIds == 3
MaxTs == 2
MaxPage == 3
MaxTokens == 2
MaxWrites == 2

Ids == 0..(NumIds - 1)
Instants == 1..MaxTs

\* The columns that do not take part in the keyset are fixed per customer.
NameOf(id) ==
  CASE id % 3 = 0 -> Txt(<<"A", "l">>) [] id % 3 = 1 -> Txt(<<"b", "o">>)
    [] OTHER -> Txt(<<"a", "l", "i">>)

EmailOf(id) == IF id % 2 = 0 THEN Txt(<<"A", "@", "x">>) ELSE Txt(<<"b", "@", "x">>)

Row(id, ts) ==
  [customer_id |-> id, name |-> NameOf(id), email |-> EmailOf(id),
   ip_addr |-> Txt(<<"1", "0", ".", "0">>), phone |-> Txt(<<"5", "5", "5">>),
   modified_ts |-> ts]

\* Every table over the ids and instants: customer_id is unique (the CDC flow
\* keys on it) and modified_ts is set (it is the __START_AT of the open row).
Tables ==
  UNION {{{Row(id, f[id]) : id \in S} : f \in [S -> Instants]} : S \in SUBSET Ids}

\* json.dumps(d) as a caller writes filters_json.
Json(d) == PyStr(JsonDumps(d))

\* {"after": v}
After(v) == PyDict(<<NameText["after"]>>, <<v>>)

\* The token of the JSON value d, as _b64 writes it.
TokenOf(d) == PyStr(B64(d))

\* The cursor of a keyset position, as predict writes it.
CursorOf(ts, id) == TokenOf(After(PyList(<<Jsonable(PyTimestamp(ts)), PyInt(id)>>)))

ClientSelect == PyStr(Txt(<<"c", "u", "s", "t", "o", "m", "e", "r", "_", "i", "d", ",",
                            "n", "a", "m", "e", ",", "e", "m", "a", "i", "l">>))

WalkSelects == {ClientSelect, PyStr(Txt(<<"e", "m", "a", "i", "l">>))}

WalkFilters ==
  {PyNone,
   Json(PyDict(<<NameText["name_contains"]>>, <<PyStr(Txt(<<"a", "l">>))>>)),
   Json(PyDict(<<NameText["modified_from"]>>,
               <<PyStr(Txt(<<"2", "0", "2", "5", "-", "1", "0", "-", "0", "2">>))>>))}

WalkLimits == {PyInt(p) : p \in 1..MaxPage}

\* filters_json values that are no JSON object of filters.
MalformedFilters ==
  {PyStr(Txt(<<"n", "o", "p", "e">>)),                               \* no JSON
   Json(PyInt(5)),                                                   \* a number
   Json(PyStr(Txt(<<"z", "z">>))),                                   \* a string
   Json(PyStr(Txt(<<"x", "e", "m", "a", "i", "l", "x">>))),          \* a string
   Json(PyList(<<PyInt(1)>>)),                                       \* a list
   Json(PyList(<<PyStr(NameText["email"])>>)),                       \* a list
   Json(PyDict(<<NameText["customer_id"]>>, <<PyStr(Txt(<<"a", "b", "c">>))>>))}

\* limit values that are absent (None) or no number.
NoLimits == {PyNone, PyStr(Txt(<<"a", "b", "c">>))}

\* Integer limits: negative, zero, positive, and around MAX_LIMIT.
IntLimits == {PyInt(l) : l \in {-1, 0, 1, MaxPage, MAX_LIMIT, MAX_LIMIT + 1}}

\* The pieces a caller may put between the commas of select_csv, each with
\* the catalog name it stands for ("" if it stands for none).
SelectTokens ==
  <<[text |-> Txt(<<"e", "m", "a", "i", "l">>), col |-> "email"],
    [text |-> Txt(<<" ", "n", "a", "m", "e", " ">>), col |-> "name"],
    [text |-> Txt(<<"m", "o", "d", "i", "f", "i", "e", "d", "_", "t", "s">>), col |-> "modified_ts"],
    [text |-> Txt(<<"d", "r", "o", "p", " ", "t", "a", "b", "l", "e", ";">>), col |-> ""],
    [text |-> Txt(<<"E", "M", "A", "I", "L">>), col |-> ""],
    [text |-> Txt(<<" ">>), col |-> ""]>>

\* The lists of at most MaxTokens pieces.
TokenLists == UNION {[1..k -> Range(SelectTokens)] : k \in 0..MaxTokens}

\* ",".join(pieces)
SelectOf(toks) == PyStr(Join([i \in 1..Len(toks) |-> toks[i].text], <<44>>))

\* The tables whose rows were all modified at the same instant.
SameDayTables == {{Row(id, ts) : id \in Ids} : ts \in Instants}

\* A name that would end a quoted SQL literal: x');--
Hostile == Txt(<<"x", "'", ")", ";", "-", "-">>)

\* Filter sets that share their keys and differ in their values.
ShapeFilters ==
  {Json(PyDict(<<NameText["name"]>>, <<PyStr(v)>>)) : v \in {Txt(<<"A", "l">>), Hostile}}
    \cup {Json(PyDict(<<NameText["name_contains"]>>, <<PyStr(v)>>)) :
             v \in {Txt(<<"a", "l">>), Txt(<<"%">>)}}
    \cup {Json(PyDict(<<NameText["customer_id"]>>, <<v>>)) :
             v \in {PyInt(1), PyStr(Txt(<<"2">>))}}
    \cup {Json(PyDict(<<NameText["email"], NameText["modified_from"]>>,
                      <<PyStr(EmailOf(id)), PyStr(SubSeq(IsoFormat(ts), 1, 10))>>)) :
             id \in {0, 1}, ts \in {1, MaxTs}}

\* The cursors of some keyset positions.
ShapeCursors == {PyNone, CursorOf(1, 0), CursorOf(MaxTs, NumIds - 1)}

\* The cursors of the keyset positions over the ids and instants.
ValidCursors == {CursorOf(ts, id) : ts \in Instants, id \in Ids}

\* Pairs of JSON-safe values: texts (one with a quote, a backslash, a line
\* feed and a character beyond ASCII), None, integers, a boolean, a list.
CodecPairs ==
  {<<a, b>> : a \in {PyStr(<<34, 92, 10, 233>>), PyStr(Txt(<<"2", "0", "2", "5">>)), PyNone},
              b \in {PyInt(-7), PyInt(0), PyBool(TRUE), PyStr(<<>>), PyList(<<PyInt(1)>>)}}

\* The tokens _b64 writes for them.
CodecCursors == {TokenOf(After(PyList(v))) : v \in CodecPairs}

\* The tables that hold every id.
FullTables == {t \in Tables : Cardinality(t) = NumIds}

\* Cursor tokens that are no encoding of {"after": [v0, v1]}.
MalformedCursors ==
  {PyStr(Txt(<<"A">>)),                                    \* no base64
   PyStr(B64Encode(Txt(<<"{", "\"", "a">>))),               \* no JSON
   TokenOf(PyList(<<PyInt(1), PyInt(2)>>)),                \* [1,2]: no object
   TokenOf(PyInt(5)),                                      \* 5: no object
   TokenOf(PyDict(<<Txt(<<"x">>)>>, <<PyInt(1)>>)),        \* {"x":1}: no "after"
   TokenOf(After(PyInt(5))),                               \* "after" no list
   TokenOf(After(PyStr(Txt(<<"a", "b">>)))),               \* "after" a text
   TokenOf(After(PyDict(<<Txt(<<"a">>), Txt(<<"b">>)>>, <<PyInt(1), PyInt(2)>>))),
   TokenOf(After(PyList(<<>>))),                           \* wrong length: 0
   TokenOf(After(PyList(<<PyInt(1)>>))),                   \* wrong length: 1
   TokenOf(After(PyList(<<PyInt(1), PyInt(2), PyInt(3)>>)))}

\* The names of the predict calls that run at the same time.
Threads == {"a", "b"}

\* References to the module-level objects and to the lists of each call.
DefaultSelectRef == <<"DEFAULT_SELECT", "">>

KeysetRef == <<"KEYSET", "">>

AllowedColsRef == <<"ALLOWED_COLS", "">>

ColTypesRef == <<"COL_TYPES", "">>

ModuleRefs == {DefaultSelectRef, KeysetRef, AllowedColsRef, ColTypesRef}

\* The list _parse_select builds for call t when it does not return
\* DEFAULT_SELECT itself.
SelectColsRef(t) == <<"select_cols", t>>

\* The list select_cols[:] of call t.
InternalSelectRef(t) == <<"internal_select", t>>

\* The objects of the process after import: the module-level ones hold
\* their literals, the lists of the calls are not built yet.
ModuleObjects ==
  [a \in ModuleRefs \cup {SelectColsRef(t) : t \in Threads}
          \cup {InternalSelectRef(t) : t \in Threads} |->
     CASE a = DefaultSelectRef -> DEFAULT_SELECT
       [] a = KeysetRef -> KEYSET
       [] a = AllowedColsRef -> ALLOWED_COLS
       [] a = ColTypesRef -> COL_TYPES
       [] OTHER -> <<>>]

NoCalls == [t \in {} |-> NoRequest]

-----------------------------------------------------------------------------
(* Actions *)

InitWith(tables, selects, filters, limits, cursors) ==
  /\ table \in tables
  /\ call \in [select_csv : selects, filters_json : filters, limit : limits]
  /\ cur \in cursors
  /\ n = 1
  /\ pc = "page"
  /\ req = NoRequest
  /\ query = NoQuery
  /\ rows = <<>>
  /\ res = NoResponse
  /\ seen = <<>>
  /\ kept = table
  /\ writes = 0
  /\ heap = ModuleObjects
  /\ calls = NoCalls

\* client.py page(cursor): the payload posted to the serving endpoint.
ClientPage ==
  /\ pc = "page"
  /\ req' = [select_csv |-> call.select_csv, filters_json |-> call.filters_json,
             limit |-> call.limit, cursor |-> cur]
  /\ pc' = "serve"
  /\ UNCHANGED <<table, call, cur, n, query, rows, res, seen, kept, writes, heap, calls>>

\* The endpoint serves the request: CustomersAPI.predict, one warehouse
\* round trip, which may fail.
Serve ==
  /\ pc = "serve"
  /\ \E up \in BOOLEAN :
       \E out \in {Predict(table, req, up)} :
         /\ res' = out.resp
         /\ query' = out.query
         /\ rows' = out.rows
  /\ pc' = "check"
  /\ UNCHANGED <<table, call, cur, n, req, seen, kept, writes, heap, calls>>

\* r.raise_for_status(): a request that failed ends the client.
ClientRaise ==
  /\ pc = "check"
  /\ res.status = "error"
  /\ pc' = "failed"
  /\ UNCHANGED <<table, call, cur, n, req, query, rows, res, seen, kept, writes, heap, calls>>

\* The page is printed; has_more is false: break.
ClientBreak ==
  /\ pc = "check"
  /\ res.status = "ok"
  /\ ~res.has_more
  /\ seen' = seen \o res.items
  /\ pc' = "done"
  /\ UNCHANGED <<table, call, cur, n, req, query, rows, res, kept, writes, heap, calls>>

\* The page is printed; has_more is true: cur, n = res["next_cursor"], n + 1.
ClientContinue ==
  /\ pc = "check"
  /\ res.status = "ok"
  /\ res.has_more
  /\ seen' = seen \o res.items
  /\ cur' = res.next_cursor
  /\ n' = n + 1
  /\ pc' = "page"
  /\ UNCHANGED <<table, call, req, query, rows, res, kept, writes, heap, calls>>

Next == ClientPage \/ Serve \/ ClientRaise \/ ClientBreak \/ ClientContinue

\* The page walk of client.py from cursor None, over every table.
Init == InitWith(Tables, WalkSelects, WalkFilters, WalkLimits, {PyNone})

Spec == Init /\ [][Next]_vars

\* The walk from a cursor that is malformed.
InitMalformed ==
  InitWith(FullTables, {ClientSelect}, {PyNone}, {PyInt(1), PyInt(MaxPage)}, MalformedCursors)

SpecMalformed == InitMalformed /\ [][Next]_vars

\* The walk of a caller with an integer limit.
InitLimit == InitWith(FullTables, {ClientSelect}, {PyNone}, IntLimits, {PyNone})

SpecLimit == InitLimit /\ [][Next]_vars

\* The walk of a caller with a select_csv of any pieces, or none.
InitSelect ==
  InitWith(SameDayTables, {SelectOf(toks) : toks \in TokenLists} \cup {PyNone}, {PyNone},
           {PyInt(1)}, {PyNone})

SpecSelect == InitSelect /\ [][Next]_vars

\* Requests of the same shape with different values.
InitShape ==
  InitWith(SameDayTables, {ClientSelect}, ShapeFilters, {PyInt(1), PyInt(MaxPage)},
           ShapeCursors)

SpecShape == InitShape /\ [][Next]_vars

\* The walk from the cursor of any keyset position, under any filter set.
InitCursor ==
  InitWith(FullTables, {PyStr(NameText["email"])}, WalkFilters, {PyInt(1), PyInt(MaxPage)},
           ValidCursors)

SpecCursor == InitCursor /\ [][Next]_vars

\* The walk from the token of any pair of JSON-safe values.
InitCodec ==
  InitWith(SameDayTables, {ClientSelect}, {PyNone}, {PyInt(1)}, CodecCursors \cup ValidCursors)

SpecCodec == InitCodec /\ [][Next]_vars

\* The walk of a caller whose filters_json or limit is malformed.
InitOdd ==
  InitWith(FullTables, {ClientSelect}, MalformedFilters \cup {PyNone},
           NoLimits \cup {PyInt(1)}, {PyNone})

SpecOdd == InitOdd /\ [][Next]_vars

-----------------------------------------------------------------------------
(* Writers: the pipeline changes the table between the requests of a walk.  *)
(* Each statement reads one version of the table, so a write falls between  *)
(* two requests.                                                            *)

\* A row appears for a customer that has none (customer_id stays unique).
Insert ==
  /\ pc = "page"
  /\ n > 1
  /\ writes < MaxWrites
  /\ \E id \in Ids \ {r.customer_id : r \in table} :
       \E ts \in Instants : table' = table \cup {Row(id, ts)}
  /\ writes' = writes + 1
  /\ UNCHANGED <<call, cur, n, pc, req, query, rows, res, seen, kept, heap, calls>>

\* A row disappears.
Delete ==
  /\ pc = "page"
  /\ n > 1
  /\ writes < MaxWrites
  /\ \E r \in table :
       /\ table' = table \ {r}
       /\ kept' = kept \ {r}
  /\ writes' = writes + 1
  /\ UNCHANGED <<call, cur, n, pc, req, query, rows, res, seen, heap, calls>>

NextChurn == Next \/ Insert \/ Delete

\* The table whose rows were modified at instants that differ from one
\* customer to the next.
StaggeredTable == {Row(id, 1 + (id % MaxTs)) : id \in Ids}

\* The walk of a caller who asks for the keyset columns, while rows come and
\* go.
InitChurn ==
  InitWith(SameDayTables \cup {StaggeredTable, StaggeredTable \ {Row(1, 1 + (1 % MaxTs))}},
           {PyStr(NameText["modified_ts"] \o <<44>> \o NameText["customer_id"])},
           {PyNone, Json(PyDict(<<NameText["name_contains"]>>, <<PyStr(Txt(<<"a", "l">>))>>))},
           {PyInt(1)}, {PyNone})

SpecChurn == InitChurn /\ [][NextChurn]_vars

-----------------------------------------------------------------------------
(* The walk as a running program: the client takes its next step whenever   *)
(* it has one (requests.post returns or raises within its timeout).         *)

InitWalk == InitWith(Tables, {ClientSelect}, WalkFilters, WalkLimits, {PyNone})

\* The change of pc of a step of Next: every step of Next is one, and it is
\* enabled in the states where the client has a next step (the loop is at a
\* request, waits for its response, or has it: raise, break or continue).
Turn ==
  \/ pc = "page" /\ pc' = "serve"
  \/ pc = "serve" /\ pc' = "check"
  \/ pc = "check" /\ pc' \in {"failed", "done", "page"}

SpecWalk == InitWalk /\ [][Next]_vars /\ WF_pc(Turn)

-----------------------------------------------------------------------------
(* Concurrent predict calls of one serving process.  Lists and dicts are    *)
(* objects of the heap: a name holds a reference, and a write through a     *)
(* reference is seen through every other reference to the same object.     *)

\* Whether _parse_select returns DEFAULT_SELECT itself: select_csv is absent
\* or empty, or it holds no catalog name (safe or DEFAULT_SELECT).
ReturnsDefault(select_csv) ==
  \/ ~Truthy(select_csv)
  \/ \A h \in Range(Lookup(SelectParts(Split(select_csv.s, 44)))) : h = {}

\* The object select_cols refers to in call t.
SelectTarget(t, select_csv) ==
  IF ReturnsDefault(select_csv) THEN DefaultSelectRef ELSE SelectColsRef(t)

\* internal_select = select_cols: the name bound to the caller's list itself.
AliasTarget(src, fresh) == src

\* internal_select = select_cols[:]: the name is bound to the new list.
CopyTarget(src, fresh) == fresh

\* if c not in internal_select: internal_select.append(c)
AppendMissing(list, c) == IF c \in Range(list) THEN list ELSE Append(list, c)

NoRef == <<"None", "">>

\* A predict call that has read model_input and done nothing else.
NewCall(r) ==
  [pc |-> "parse", req |-> r, select_cols |-> NoRef, internal_select |-> NoRef, k |-> 1,
   up |-> TRUE, query |-> NoQuery, rows |-> <<>>, res |-> NoResponse]

\* The requests of the concurrent calls: the default projection and a given
\* one, with and without a filter and a cursor, and requests that raise.
CallRequests ==
  [select_csv : {PyNone, PyStr(NameText["email"])}, filters_json : {PyNone, Json(PyDict(<<NameText["name_contains"]>>, <<PyStr(Txt(<<"a", "l">>))>>))},
   limit : {PyInt(1)}, cursor : {PyNone, CursorOf(1, 1)}]
    \cup {[select_csv |-> PyStr(Txt(<<"n", "o", "p", "e">>)), filters_json |-> PyNone,
           limit |-> PyInt(MaxPage), cursor |-> PyNone],
          [select_csv |-> PyNone, filters_json |-> Json(PyInt(5)),
           limit |-> PyInt(1), cursor |-> PyNone],
          [select_csv |-> PyNone, filters_json |-> PyNone,
           limit |-> PyStr(Txt(<<"a", "b", "c">>)), cursor |-> PyNone],
          [select_csv |-> PyNone, filters_json |-> PyNone,
           limit |-> PyInt(1), cursor |-> TokenOf(After(PyList(<<PyInt(1)>>)))]}

\* The call ends: the exception err escapes predict.
CallRaises(t, err) ==
  /\ calls' = [calls EXCEPT ![t].pc = "done", ![t].res = Raised(err)]
  /\ heap' = heap

\* predict: select_cols = _parse_select(...); filters = _parse_filters(...)
CallParse(t) ==
  /\ calls[t].pc = "parse"
  /\ \E filters \in {ParseFilters(calls[t].req.filters_json)} :
       IF filters.err # "" THEN CallRaises(t, filters.err)
       ELSE /\ calls' = [calls EXCEPT ![t].pc = "copy",
                                      ![t].select_cols = SelectTarget(t, calls[t].req.select_csv)]
            /\ heap' = [heap EXCEPT ![SelectColsRef(t)] =
                          IF ReturnsDefault(calls[t].req.select_csv) THEN @
                          ELSE ParseSelect(calls[t].req.select_csv)]
  /\ UNCHANGED <<table, call, cur, n, pc, req, query, rows, res, seen, kept, writes>>

\* _build_sql up to internal_select = select_cols[:]; the cursor may raise
\* before it.
CallCopy(t) ==
  /\ calls[t].pc = "copy"
  /\ \E ks \in {KeysetOf(AfterVals(calls[t].req.cursor))} :
       IF ks.err # "" THEN CallRaises(t, ks.err)
       ELSE /\ heap' = [heap EXCEPT ![InternalSelectRef(t)] = heap[calls[t].select_cols]]
            /\ calls' = [calls EXCEPT ![t].pc = "append",
                                      ![t].internal_select =
                                        CopyTarget(calls[t].select_cols, InternalSelectRef(t))]
  /\ UNCHANGED <<table, call, cur, n, pc, req, query, rows, res, seen, kept, writes>>

\* for c in keyset_cols: if c not in internal_select: internal_select.append(c)
\* (one turn of the loop).
CallAppend(t) ==
  /\ calls[t].pc = "append"
  /\ heap' = [heap EXCEPT ![calls[t].internal_select] =
                AppendMissing(@, heap[KeysetRef][calls[t].k][1])]
  /\ calls' = [calls EXCEPT ![t].k = @ + 1,
                            ![t].pc = IF calls[t].k = Len(heap[KeysetRef])
                                      THEN "execute" ELSE "append"]
  /\ UNCHANGED <<table, call, cur, n, pc, req, query, rows, res, seen, kept, writes>>

\* The call has its statement and the warehouse has answered it or not.
CallFetched(t, up, q, ex) ==
  IF ~up THEN /\ calls' = [calls EXCEPT ![t].pc = "done", ![t].up = FALSE, ![t].query = q,
                                        ![t].res = Raised("OperationalError")]
              /\ heap' = heap
  ELSE IF ex.err # "" THEN CallRaises(t, ex.err)
  ELSE /\ calls' = [calls EXCEPT ![t].pc = "assemble", ![t].query = q, ![t].rows = ex.rows]
       /\ heap' = heap

\* The query of the call, executed: internal_select and select_cols are read
\* through their references.
CallQuery(t, up, ps, fclauses, ks) ==
  \E q \in {Built(heap[calls[t].select_cols], heap[calls[t].internal_select],
                  WhereOf(fclauses, ks), ParamsOf(fclauses, ks), Lookahead(ps.n))} :
    CallFetched(t, up, q, Execute(table, q))

\* _build_sql from page_size on (int(limit) may raise), then cur.execute and
\* cur.fetchall in predict.
CallExecute(t) ==
  /\ calls[t].pc = "execute"
  /\ \E up \in BOOLEAN :
       \E ps \in {PageSize(calls[t].req.limit)} :
         IF ~ps.ok THEN CallRaises(t, ps.err)
         ELSE CallQuery(t, up, ps, FilterClauses(ParseFilters(calls[t].req.filters_json).f),
                        KeysetOf(AfterVals(calls[t].req.cursor)))
  /\ UNCHANGED <<table, call, cur, n, pc, req, query, rows, res, seen, kept, writes>>

\* predict from page_size to the response; public_select is read through its
\* reference.
CallAssemble(t) ==
  /\ calls[t].pc = "assemble"
  /\ calls' = [calls EXCEPT ![t].pc = "done",
                            ![t].res = Assemble(RowItems(calls[t].query.internal_select,
                                                         calls[t].rows),
                                                PageSize(calls[t].req.limit).n,
                                                heap[calls[t].select_cols])]
  /\ heap' = heap
  /\ UNCHANGED <<table, call, cur, n, pc, req, query, rows, res, seen, kept, writes>>

NextCalls ==
  \E t \in Threads :
    CallParse(t) \/ CallCopy(t) \/ CallAppend(t) \/ CallExecute(t) \/ CallAssemble(t)

\* Two predict calls in flight on one table, no client walk.
InitCalls ==
  /\ table \in SameDayTables
  /\ calls \in [Threads -> {NewCall(r) : r \in CallRequests}]
  /\ heap = ModuleObjects
  /\ kept = table
  /\ writes = 0
  /\ call = [select_csv |-> PyNone, filters_json |-> PyNone, limit |-> PyNone]
  /\ cur = PyNone
  /\ n = 1
  /\ pc = "calls"
  /\ req = NoRequest
  /\ query = NoQuery
  /\ rows = <<>>
  /\ res = NoResponse
  /\ seen = <<>>

SpecCalls == InitCalls /\ [][NextCalls]_vars

-----------------------------------------------------------------------------
(* Properties of the page walk *)

\* The place of column c in the SELECT list cols.
ColumnIndex(cols, c) == CHOOSE i \in 1..Len(cols) : cols[i] = c

\* The keyset values (modified_ts, customer_id) of a fetched tuple, as the
\* response writes them.
KeysetValues(cols, row) ==
  PyList([i \in 1..Len(KEYSET) |-> Jsonable(row[ColumnIndex(cols, KEYSET[i][1])])])

\* What the whole walk must print for the statement q of its first request:
\* every row of the table the filters hold of, in keyset order, each with
\* the columns of the public projection.
AllItems(tbl, q) ==
  [r \in 1..Cardinality(Matching(tbl, q.where, q.params)) |->
     [c \in Range(q.public_select) |->
        Jsonable(ColumnValue(Ordered(Matching(tbl, q.where, q.params))[r], c))]]

\* The statement of the first request of the walk (no cursor).
FirstQuery ==
  BuildSql(ParseSelect(call.select_csv), ParseFilters(call.filters_json).f, call.limit, PyNone)

\* C1: a walk that starts with no cursor and follows next_cursor until
\* has_more is false has printed exactly the rows that match the filters,
\* each once, in keyset order (modified_ts DESC, customer_id DESC).
C1_WalkIsExhaustive == pc = "done" => seen = AllItems(table, FirstQuery)

\* A walk of several pages under a filter that leaves some row out.
C1_Witness ==
  /\ pc = "done"
  /\ n >= 2
  /\ Len(seen) >= 2
  /\ Len(seen) < Cardinality(table)

\* C2: has_more is true exactly when the query returned more than p rows; if
\* so the items are the first p rows and next_cursor encodes the keyset
\* values of row p - 1 (0-based), otherwise next_cursor is null and every
\* row is kept; count is the number of items.
C2_PageAssembly ==
  pc = "check" /\ res.status = "ok" =>
    /\ res.has_more <=> Len(rows) > PageSize(req.limit).n
    /\ res.count = Len(res.items)
    /\ Len(res.items) = IF res.has_more THEN PageSize(req.limit).n ELSE Len(rows)
    /\ \A r \in 1..Len(res.items) : \A c \in DOMAIN res.items[r] :
         res.items[r][c] = Jsonable(rows[r][ColumnIndex(query.internal_select, c)])
    /\ res.has_more =>
         Unb64(res.next_cursor)
           = After(KeysetValues(query.internal_select, rows[PageSize(req.limit).n]))
    /\ ~res.has_more => res.next_cursor = PyNone

\* A page of two rows cut from a fetch of three.
C2_Witness ==
  /\ pc = "check"
  /\ res.status = "ok"
  /\ res.has_more
  /\ Len(rows) = 3
  /\ res.count = 2

\* C8: the internal projection holds the public projection and both keyset
\* columns, and every item has exactly the columns of the public projection.
C8_KeysetColumnsStayInternal ==
  pc = "check" /\ res.status = "ok" =>
    /\ query.public_select = ParseSelect(req.select_csv)
    /\ Range(query.public_select) \subseteq Range(query.internal_select)
    /\ \A i \in 1..Len(KEYSET) : KEYSET[i][1] \in Range(query.internal_select)
    /\ \A r \in 1..Len(res.items) : DOMAIN res.items[r] = Range(query.public_select)

\* A page whose caller asked for customer_id and not for modified_ts.
C8_Witness ==
  /\ pc = "check"
  /\ res.status = "ok"
  /\ Len(res.items) > 0
  /\ "customer_id" \in Range(query.public_select)
  /\ "modified_ts" \notin Range(query.public_select)
  /\ "modified_ts" \in Range(query.internal_select)

-----------------------------------------------------------------------------
(* Properties of requests with a cursor *)

\* C9: the token of {"after": v}, v a pair of JSON-safe values, decodes to
\* {"after": v}, and the request that carries it binds v[0] and v[1]; the
\* next_cursor of a page decodes, for the next request, to the keyset values
\* of the last row the page returned.
C9_CursorRoundTrip ==
  /\ pc = "check" =>
       \A v \in CodecPairs :
         req.cursor = TokenOf(After(PyList(v))) =>
           /\ Unb64(req.cursor) = After(PyList(v))
           /\ query # NoQuery
           /\ query.params["k0"] = v[1]
           /\ query.params["k1"] = v[2]
  /\ pc = "page" /\ n > 1 =>
       Unb64(cur) = After(KeysetValues(query.internal_select, rows[PageSize(call.limit).n]))

\* A request whose cursor holds a text with a quote and a backslash.
C9_Witness ==
  /\ pc = "check"
  /\ req.cursor = TokenOf(After(PyList(<<PyStr(<<34, 92, 10, 233>>), PyInt(-7)>>)))
  /\ query.params["k0"] = PyStr(<<34, 92, 10, 233>>)

\* Whether the fetched tuple is strictly after the keyset position (ts, id).
IsAfter(cols, row, ts, id) ==
  \/ row[ColumnIndex(cols, "modified_ts")].n < ts
  \/ /\ row[ColumnIndex(cols, "modified_ts")].n = ts
     /\ row[ColumnIndex(cols, "customer_id")].n < id

\* The rows of the table that the WHERE clause of a compiled query holds of.
RowsOf(tbl, q) == Matching(tbl, q.where, q.params)

\* The rows of the table that the filters of the request hold of.
FilterMatches(tbl, r) ==
  RowsOf(tbl, BuildSql(ParseSelect(r.select_csv), ParseFilters(r.filters_json).f, r.limit, PyNone))

\* C10: under a valid cursor every row returned satisfies every filter of
\* the request and is strictly after the cursor's position in keyset order;
\* the rows fetched are all such rows up to the limit, and none is a valid
\* empty page, not an error.
C10_CursorNarrowsFilters ==
  pc = "check" /\ res.err # "OperationalError" =>
    \A ts \in Instants, id \in Ids :
      req.cursor = CursorOf(ts, id) =>
        /\ res.status = "ok"
        /\ \A r \in 1..Len(rows) :
             /\ IsAfter(query.internal_select, rows[r], ts, id)
             /\ \E row \in FilterMatches(table, req) :
                  /\ PyInt(row.customer_id) = rows[r][ColumnIndex(query.internal_select, "customer_id")]
                  /\ PyTimestamp(row.modified_ts)
                       = rows[r][ColumnIndex(query.internal_select, "modified_ts")]
        /\ \A row \in FilterMatches(table, req) :
             (Before([modified_ts |-> ts, customer_id |-> id], row) /\ Len(rows) <= PageSize(req.limit).n)
               => \E r \in 1..Len(rows) :
                    PyInt(row.customer_id) = rows[r][ColumnIndex(query.internal_select, "customer_id")]
        /\ rows = <<>> =>
             /\ res.items = <<>>
             /\ res.count = 0
             /\ ~res.has_more
             /\ res.next_cursor = PyNone

\* A page of a drawn cursor under a filter that some row after the cursor
\* does not satisfy.
C10_Witness ==
  /\ pc = "check"
  /\ res.status = "ok"
  /\ n = 1
  /\ \E ts \in Instants, id \in Ids :
       /\ req.cursor = CursorOf(ts, id)
       /\ \E row \in table \ FilterMatches(table, req) :
            Before([modified_ts |-> ts, customer_id |-> id], row)
  /\ Len(res.items) >= 1

\* C3: a request whose cursor is malformed is compiled and served exactly as
\* the same request without a cursor (the first page, no keyset predicate)
\* and raises no error.  (A response with OperationalError is the warehouse
\* not answering, which is no matter of the cursor.)
C3_MalformedCursorIsAbsent ==
  pc = "check" /\ req.cursor \in MalformedCursors /\ res.err # "OperationalError" =>
    \A first \in {Predict(table, [req EXCEPT !.cursor = PyNone], TRUE)} :
      /\ res = first.resp
      /\ query = first.query
      /\ res.status = "ok"

\* A cursor that encodes {"after": [1]}: the assertion of the keyset
\* predicate builder fails and the request is answered by the error.
C3_Witness ==
  /\ pc = "check"
  /\ req.cursor = TokenOf(After(PyList(<<PyInt(1)>>)))
  /\ res.err = "AssertionError"

-----------------------------------------------------------------------------
(* Properties of the request normaliser *)

\* C4: a request with a malformed filters_json, or a limit that is absent or
\* no number, raises no error and is compiled: malformed filters give no
\* filter predicate (no bound parameter but lim and the keyset's), such a
\* limit gives the page size 50.
C4_NormaliserNeverRaises ==
  pc = "check" /\ res.err # "OperationalError"
    /\ (req.filters_json \in MalformedFilters \/ req.limit \in NoLimits) =>
    /\ res.status = "ok"
    /\ query # NoQuery
    /\ req.filters_json \in MalformedFilters => DOMAIN query.params \subseteq {"lim", "k0", "k1"}
    /\ req.limit \in NoLimits => query.params["lim"] = PyInt(DEFAULT_LIMIT + 1)

\* filters_json = "5": the membership test on the parsed number raises.
C4_Witness ==
  /\ pc = "check"
  /\ req.filters_json = Json(PyInt(5))
  /\ res.err = "TypeError"

\* limit clamped to [1, MAX_LIMIT].
ClampedLimit(l) == IF l < 1 THEN 1 ELSE IF l > MAX_LIMIT THEN MAX_LIMIT ELSE l

\* C5: for an integer limit the page size is the limit clamped to
\* [1, MAX_LIMIT]: lim is bound to that page size + 1, and the response has
\* no more items than the page size (so no more than MAX_LIMIT).
C5_LimitIsClamped ==
  pc = "check" /\ req.limit.t = "int" /\ res.status = "ok" =>
    /\ query.params["lim"] = PyInt(ClampedLimit(req.limit.n) + 1)
    /\ res.count <= ClampedLimit(req.limit.n)
    /\ res.count <= MAX_LIMIT

\* limit = 0 is served with the default page size: more than one item.
C5_Witness ==
  /\ pc = "check"
  /\ req.limit = PyInt(0)
  /\ res.status = "ok"
  /\ query.params["lim"] = PyInt(DEFAULT_LIMIT + 1)
  /\ res.count > 1

\* The projection the pieces toks ask for: the catalog names among them in
\* their order, the default projection if there is none.
Projection(toks) ==
  IF \A i \in 1..Len(toks) : toks[i].col = "" THEN <<"customer_id", "name", "email">>
  ELSE [i \in 1..Len(SelectSeq(toks, LAMBDA t : t.col # "")) |->
          SelectSeq(toks, LAMBDA t : t.col # "")[i].col]

\* C6: the public projection is the catalog names of select_csv in the
\* caller's order, every other piece dropped, and the default projection if
\* none remains or select_csv is absent; it is never empty and the SELECT
\* list of the statement holds catalog names only.
C6_ProjectionIsCatalogOnly ==
  pc = "check" /\ query # NoQuery =>
    /\ query.public_select # <<>>
    /\ Range(query.internal_select) \subseteq Columns
    /\ req.select_csv = PyNone => query.public_select = <<"customer_id", "name", "email">>
    /\ \A toks \in TokenLists :
         req.select_csv = SelectOf(toks) =>
           /\ query.public_select = Projection(toks)
           /\ query.stmt = Statement(InternalSelect(Projection(toks)), query.where)

\* select_csv = "drop table;,email" gives the projection (email).
C6_Witness ==
  /\ pc = "check"
  /\ res.status = "ok"
  /\ req.select_csv = SelectOf(<<SelectTokens[4], SelectTokens[1]>>)
  /\ query.public_select = <<"email">>

-----------------------------------------------------------------------------
(* Properties of the query compiler *)

\* The statement of a request shape: a public projection, a set of filter
\* keys, and a cursor or none.  Every value is a fixed one.
ShapeStatement(public_select, keys, paged) ==
  BuildSql(public_select, [k \in keys |-> PyStr(<<>>)], PyNone,
           IF paged THEN CursorOf(0, 0) ELSE PyNone).stmt

\* The bound parameter of a filter key.
ParamOf(k) ==
  CASE k = "email" -> "email_lc" [] k = "name_contains" -> "name_like" [] OTHER -> k

\* C7: the statement text is that of the request's shape (its public
\* projection, the set of its filter keys, a cursor or none), so two
\* requests of one shape have the same text whatever their filter values,
\* cursor values and limit; every value is a bound parameter.
C7_StatementTextIsValueFree ==
  pc = "check" /\ query # NoQuery =>
    \A f \in {ParseFilters(req.filters_json).f} :
      /\ query.stmt = ShapeStatement(query.public_select, DOMAIN f, Truthy(req.cursor))
      /\ DOMAIN query.params
           = {ParamOf(k) : k \in DOMAIN f} \cup {"lim"}
               \cup (IF Truthy(req.cursor) THEN {"k0", "k1"} ELSE {})
      /\ \A k \in DOMAIN f \ {"email", "name_contains"} : query.params[k] = f[k]

\* A request that filters on the hostile name and was compiled.
C7_Witness ==
  /\ pc = "check"
  /\ query # NoQuery
  /\ req.filters_json = Json(PyDict(<<NameText["name"]>>, <<PyStr(Hostile)>>))
  /\ Truthy(req.cursor)
  /\ query.params["name"] = PyStr(Hostile)

-----------------------------------------------------------------------------
(* Properties of concurrent calls *)

\* C11: under any interleaving of the steps of concurrent predict calls the
\* module-level objects ALLOWED_COLS, COL_TYPES, KEYSET and DEFAULT_SELECT
\* keep the values they had after import, and the response of every call
\* that has ended is the response of the same request run alone on the table.
C11_CallsShareNoMutableState ==
  /\ \A a \in ModuleRefs : heap[a] = ModuleObjects[a]
  /\ \A t \in DOMAIN calls :
       calls[t].pc = "done" =>
         calls[t].res = Predict(table, calls[t].req, calls[t].up).resp

\* Both calls have ended, each with the default projection (DEFAULT_SELECT
\* itself was their select_cols), and one has returned items.
C11_Witness ==
  /\ DOMAIN calls = Threads
  /\ \A t \in Threads :
       /\ calls[t].pc = "done"
       /\ calls[t].select_cols = DefaultSelectRef
       /\ calls[t].res.status = "ok"
  /\ \E t \in Threads : calls[t].res.count >= 1

-----------------------------------------------------------------------------
(* Properties of a walk under writes *)

\* The keyset position of an item that holds both keyset columns.
ItemKey(item) ==
  [modified_ts |-> CHOOSE ts \in Instants : Jsonable(PyTimestamp(ts)) = item["modified_ts"],
   customer_id |-> item["customer_id"].n]

\* The item of a table row under the projection cols.
ItemOf(row, cols) == [c \in Range(cols) |-> Jsonable(ColumnValue(row, c))]

\* C12: while rows are inserted and deleted between the requests of a walk,
\* the keyset pairs (modified_ts, customer_id) of the items printed so far
\* are strictly descending (so none is printed twice), and when the walk ends
\* every row that matches the filters and was in the table during the whole
\* walk has been printed exactly once.
C12_NoAnomalyUnderWrites ==
  /\ \A i \in 1..(Len(seen) - 1) : Before(ItemKey(seen[i]), ItemKey(seen[i + 1]))
  /\ pc = "done" =>
       \A row \in FilterMatches(kept, call) :
         Cardinality({i \in 1..Len(seen) :
                        seen[i] = ItemOf(row, ParseSelect(call.select_csv))}) = 1

\* A walk of several pages has ended after a row was deleted and a row was
\* inserted; a row that was there all the time and the row that was
\* inserted were both printed.
C12_Witness ==
  /\ pc = "done"
  /\ n >= 2
  /\ writes = MaxWrites
  /\ \E row \in kept : \E i \in 1..Len(seen) : ItemKey(seen[i]).customer_id = row.customer_id
  /\ \E row \in table \ kept :
       \E i \in 1..Len(seen) : seen[i] = ItemOf(row, ParseSelect(call.select_csv))

-----------------------------------------------------------------------------
(* Properties of the walk's end *)

\* max(1, ceil(m / p))
Requests(m, p) == IF m = 0 THEN 1 ELSE (m + p - 1) \div p

\* C13: the walk over an unchanging table ends (on has_more = false, or on
\* the exception of a request that failed); when it ends on has_more = false
\* it has made max(1, ceil(m / p)) requests, m the number of rows matching
\* the filters and p the page size; every page after a page with has_more =
\* true has an item, and the last page is empty only if no row matches.
C13_WalkTerminates ==
  /\ <>(pc \in {"done", "failed"})
  /\ [](pc = "check" => res.status \in {"ok", "error"})
  /\ [](pc = "done" =>
         /\ n = Requests(Cardinality(FilterMatches(table, call)), PageSize(call.limit).n)
         /\ res.count = 0 => FilterMatches(table, call) = {})
  /\ [](pc = "check" /\ res.status = "ok" /\ n > 1 => res.count >= 1)

\* A walk of three rows by pages of two has ended with its second request,
\* on a page of one item.
C13_Witness ==
  /\ pc = "done"
  /\ Cardinality(FilterMatches(table, call)) = 3
  /\ PageSize(call.limit).n = 2
  /\ n = 2
  /\ res.count = 1

=============================================================================
